---- MODULE Spec2Model ----
(***************************************************************************)
(* Model of the Streamlit video-understanding app (src/app.py) and its     *)
(* text-generation gateway (src/llm_utils.py).                             *)
(*                                                                         *)
(* Python strings are modelled as sequences of one-character strings, so   *)
(* that strip(), split(), lower() and the substring test are computed.     *)
(* An optional value (None or a value) is a sequence of length 0 or 1.     *)
(***************************************************************************)
EXTENDS Integers, Sequences, FiniteSets, TLC

\* ------------------------------------------------------------------------
\* Bounds of the model
\* ------------------------------------------------------------------------
\* Longest transcript (number of segments) handed to the pure functions.
MaxSegs == 3
\* Largest max_chars handed to extract_important_segments (0..MaxChars).
MaxChars == 33
\* Largest max_frames handed to extract_key_frames directly (0..MaxFrames).
MaxFrames == 3

\* Longest fallback list (response.output) handed to generate_text.
MaxItems == 2

\* ------------------------------------------------------------------------
\* Python values
\* ------------------------------------------------------------------------
None == <<>>
Some(v) == <<v>>
\* Python truthiness of an optional string or list: None, "" and [] are falsy.
Truthy(o) == o # <<>> /\ o[1] # <<>>

\* str.isspace() for the characters that occur.
IsSpace(c) == c \in {" ", "\t", "\n", "\r"}

UpperChars == <<"A","B","C","D","E","F","G","H","I","J","K","L","M",
                "N","O","P","Q","R","S","T","U","V","W","X","Y","Z">>
LowerChars == <<"a","b","c","d","e","f","g","h","i","j","k","l","m",
                "n","o","p","q","r","s","t","u","v","w","x","y","z">>

\* str.lower(), one character
LowerOf ==
    [c \in {UpperChars[j] : j \in 1..Len(UpperChars)} |->
        LowerChars[CHOOSE j \in 1..Len(UpperChars) : UpperChars[j] = c]]

\* str.lower()
lower(t) ==
    [i \in 1..Len(t) |-> IF t[i] \in DOMAIN LowerOf THEN LowerOf[t[i]] ELSE t[i]]

RECURSIVE lstrip(_)
lstrip(t) ==
    IF t # <<>> /\ IsSpace(Head(t)) THEN lstrip(Tail(t)) ELSE t

RECURSIVE rstrip(_)
rstrip(t) ==
    IF t # <<>> /\ IsSpace(t[Len(t)]) THEN rstrip(SubSeq(t, 1, Len(t) - 1)) ELSE t

\* str.strip()
strip(t) == rstrip(lstrip(t))

\* str.split(): the maximal runs of non-whitespace characters, in order.
RECURSIVE split_from(_, _, _)
split_from(t, word, words) ==
    IF t = <<>>
    THEN IF word = <<>> THEN words ELSE Append(words, word)
    ELSE IF IsSpace(Head(t))
         THEN split_from(Tail(t), <<>>,
                         IF word = <<>> THEN words ELSE Append(words, word))
         ELSE split_from(Tail(t), Append(word, Head(t)), words)

split(t) == split_from(t, <<>>, <<>>)

\* The Python test "k in t" on strings: k occurs in t as a substring.
Contains(k, t) ==
    \E i \in 1..(Len(t) - Len(k) + 1) :
        \A j \in 1..Len(k) : t[i + j - 1] = k[j]

\* ------------------------------------------------------------------------
\* IMPORTANT SEGMENTS
\* ------------------------------------------------------------------------
IMPORTANT_KEYWORDS ==
    << <<"s","t","e","p">>,
       <<"i","m","p","o","r","t","a","n","t">>,
       <<"r","e","m","e","m","b","e","r">>,
       <<"k","e","y">>,
       <<"m","i","s","t","a","k","e">>,
       <<"n","o","t","e">>,
       <<"f","i","r","s","t">>,
       <<"s","e","c","o","n","d">>,
       <<"f","i","n","a","l","l","y">>,
       <<"e","x","a","m","p","l","e">>,
       <<"d","i","a","g","r","a","m">>,
       <<"c","h","a","r","t">>,
       <<"f","i","g","u","r","e">> >>

\* any(k in t for k in IMPORTANT_KEYWORDS)
AnyKeyword(t) ==
    \E j \in 1..Len(IMPORTANT_KEYWORDS) : Contains(IMPORTANT_KEYWORDS[j], t)

\* The word count below which a segment is skipped.
MinWords == 6
\* The default of max_chars, which the Analyze pipeline uses.
DefaultMaxChars == 3000

\* Mutant of important_loop: no segment is skipped for its word count.
RECURSIVE important_loop_any_length(_, _, _, _)
important_loop_any_length(segments, max_chars, i, text) ==
    IF i > Len(segments)
    THEN [text |-> text, evaluated |-> Len(segments)]
    ELSE LET t == strip(segments[i].text)
             text2 == IF AnyKeyword(lower(t))
                      THEN text \o t \o <<" ">>
                      ELSE text
         IN  IF Len(text2) >= max_chars
             THEN [text |-> text2, evaluated |-> i]
             ELSE important_loop_any_length(segments, max_chars, i + 1, text2)

\* Mutant of important_loop: the loop goes on until the buffer is longer than
\* max_chars (> for >=).
RECURSIVE important_loop_gt(_, _, _, _)
important_loop_gt(segments, max_chars, i, text) ==
    IF i > Len(segments)
    THEN [text |-> text, evaluated |-> Len(segments)]
    ELSE LET t == strip(segments[i].text) IN
         IF Len(split(t)) < MinWords
         THEN important_loop_gt(segments, max_chars, i + 1, text)
         ELSE LET text2 == IF AnyKeyword(lower(t))
                           THEN text \o t \o <<" ">>
                           ELSE text
              IN  IF Len(text2) > max_chars
                  THEN [text |-> text2, evaluated |-> i]
                  ELSE important_loop_gt(segments, max_chars, i + 1, text2)

\* The for loop of extract_important_segments from segment i on, with the
\* buffer text built so far.  Returns the buffer and the number of segments
\* the loop has looked at when it ends.
RECURSIVE important_loop(_, _, _, _)
important_loop(segments, max_chars, i, text) ==
    IF i > Len(segments)
    THEN [text |-> text, evaluated |-> Len(segments)]
    ELSE LET t == strip(segments[i].text) IN
         IF Len(split(t)) < MinWords
         THEN important_loop(segments, max_chars, i + 1, text)
         ELSE LET text2 == IF AnyKeyword(lower(t))
                           THEN text \o t \o <<" ">>
                           ELSE text
              IN  IF Len(text2) >= max_chars
                  THEN [text |-> text2, evaluated |-> i]
                  ELSE important_loop(segments, max_chars, i + 1, text2)

important_scan(segments, max_chars) ==
    important_loop(segments, max_chars, 1, <<>>)

\* Mutant of extract_important_segments: the buffer is cut to max_chars
\* characters before it is returned (text[:max_chars].strip()).
extract_important_segments_cut(segments, max_chars) ==
    LET text == important_scan(segments, max_chars).text IN
    strip(SubSeq(text, 1, IF max_chars < Len(text) THEN max_chars ELSE Len(text)))

extract_important_segments(segments, max_chars) ==
    strip(important_scan(segments, max_chars).text)

\* ------------------------------------------------------------------------
\* FRAME EXTRACTION (UPLOADS ONLY)
\* ------------------------------------------------------------------------
\* What one run of the ffmpeg subprocess can do: write the image ("ok"), exit
\* with an error and write nothing ("fail"), or not start at all ("raise":
\* subprocess.run raises OSError).
GrabOutcomes == {"ok", "fail", "raise"}

\* extract_frame: subprocess.run is called without check=True and its return
\* code is not read, so only a failure to start the process raises.
extract_frame(outcome) ==
    [raised |-> outcome = "raise", written |-> outcome = "ok"]

\* The for loop of extract_key_frames from segment i on (i counts from 1,
\* enumerate() from 0, so the frame of segment i is frame_{i-1}.jpg).
\* grab[i] is what ffmpeg does when asked for segment i.  Returns the frames,
\* the segments ffmpeg was run for, and whether the loop raised.
RECURSIVE key_frames_loop(_, _, _, _, _, _)
key_frames_loop(segments, grab, max_frames, i, frames, grabs) ==
    IF i > Len(segments)
    THEN [raised |-> FALSE, frames |-> frames, grabs |-> grabs]
    ELSE IF AnyKeyword(lower(segments[i].text))
         THEN LET r == extract_frame(grab[i])
                  frames2 == Append(frames, [path  |-> i - 1,
                                             text  |-> segments[i].text,
                                             start |-> segments[i].start])
              IN  IF r.raised
                  THEN [raised |-> TRUE, frames |-> frames,
                        grabs |-> Append(grabs, i)]
                  ELSE IF Len(frames2) >= max_frames
                       THEN [raised |-> FALSE, frames |-> frames2,
                             grabs |-> Append(grabs, i)]
                       ELSE key_frames_loop(segments, grab, max_frames, i + 1,
                                            frames2, Append(grabs, i))
         ELSE IF Len(frames) >= max_frames
              THEN [raised |-> FALSE, frames |-> frames, grabs |-> grabs]
              ELSE key_frames_loop(segments, grab, max_frames, i + 1,
                                   frames, grabs)

extract_key_frames(segments, grab, max_frames) ==
    key_frames_loop(segments, grab, max_frames, 1, <<>>, <<>>)

\* ------------------------------------------------------------------------
\* The text-generation gateway (llm_utils.generate_text)
\* ------------------------------------------------------------------------
\* A reply of the backend to client.responses.create:
\*   error        the call itself raises (network, authentication, quota)
\*   output_text  the primary field: None when absent, else Some(text)
\*   output       the fallback list: None when it is not a list, else
\*                Some(items); an item is [dict, type, text], dict = FALSE for
\*                an item that is an object and cannot be subscripted.
Reply(error, output_text, output) ==
    [error |-> error, output_text |-> output_text, output |-> output]

Item(dict, type, text) == [dict |-> dict, type |-> type, text |-> text]

\* The fallback loop of generate_text over response.output from item i on.
RECURSIVE output_loop(_, _)
output_loop(items, i) ==
    IF i > Len(items)
    THEN [raised |-> FALSE, value |-> <<>>]
    ELSE IF ~items[i].dict
         THEN [raised |-> TRUE, value |-> <<>>]
         ELSE IF items[i].type = "output_text"
              THEN [raised |-> FALSE, value |-> strip(items[i].text)]
              ELSE output_loop(items, i + 1)

generate_text(reply) ==
    IF reply.error
    THEN [raised |-> TRUE, value |-> <<>>]
    ELSE IF Truthy(reply.output_text)
         THEN [raised |-> FALSE, value |-> strip(reply.output_text[1])]
         ELSE IF reply.output = None
              THEN [raised |-> TRUE, value |-> <<>>]
              ELSE output_loop(reply.output[1], 1)

\* ------------------------------------------------------------------------
\* Inputs
\* ------------------------------------------------------------------------
\* Segment texts as the transcriber emits them.
\* " key a b c d e": six words, a keyword, leading blank.
TxtKey == <<" ","k","e","y"," ","a"," ","b"," ","c"," ","d"," ","e">>
\* "First a b c d e ": six words, a capitalised keyword, trailing blank.
TxtFirst == <<"F","i","r","s","t"," ","a"," ","b"," ","c"," ","d"," ","e"," ">>
\* "a b c d e f": six words, no keyword.
TxtPlain == <<"a"," ","b"," ","c"," ","d"," ","e"," ","f">>
\* "key step": keywords, but two words only.
TxtShort == <<"k","e","y"," ","s","t","e","p">>
\* "a  key b c d e": six words, a keyword, two blanks inside.
TxtGap == <<"a"," "," ","k","e","y"," ","b"," ","c"," ","d"," ","e">>

SegmentTexts == {TxtKey, TxtFirst, TxtPlain, TxtShort, TxtGap}

\* The texts handed to extract_key_frames: with a keyword, without one, and
\* with a keyword in fewer than six words.
FrameTexts == {TxtKey, TxtPlain, TxtShort}

\* The segment_data list built from the transcriber's segments; segment i
\* starts at second i - 1.
SegmentData(texts) ==
    [i \in 1..Len(texts) |-> [text |-> texts[i], start |-> i - 1, end |-> i]]

\* All sequences over S of length at most n.
SeqsUpTo(S, n) == UNION {[1..m -> S] : m \in 0..n}

\* ------------------------------------------------------------------------
\* SESSION STATE
\* ------------------------------------------------------------------------
SESSION_KEYS ==
    <<"segments", "raw_transcript", "refined_transcript", "frames",
      "takeaways", "mistakes", "application",
      "twitter_content", "linkedin_content", "reel_content">>

Keys == {SESSION_KEYS[i] : i \in 1..Len(SESSION_KEYS)}

\* The three insight buttons and the three social buttons, each named after
\* the session key it writes.
InsightKeys == {"takeaways", "mistakes", "application"}
SocialKeys == {"twitter_content", "linkedin_content", "reel_content"}
TriggerKeys == InsightKeys \cup SocialKeys

\* The four keys the Analyze pipeline writes.
PipelineSlots == {"segments", "raw_transcript", "refined_transcript", "frames"}

\* st.session_state after clear(): no key at all.
EmptyState == [k \in {} |-> None]

\* for k in SESSION_KEYS: st.session_state.setdefault(k, None)
setdefault(state) ==
    [k \in Keys |-> IF k \in DOMAIN state THEN state[k] ELSE None]

\* The slider of the frame count: min_value, value, max_value.
SliderMin == 1
SliderDefault == 3
SliderMax == 5

\* suffix.lower() in [".mp4", ".mov", ".mkv"]: the suffix of the uploaded
\* file, not its content, decides whether it counts as a video.
VideoSuffixes ==
    { <<".","m","p","4">>, <<".","m","o","v">>, <<".","m","k","v">> }

is_video_suffix(suffix) == lower(suffix) \in VideoSuffixes

VARIABLES
    session_state,  \* st.session_state: a function from a set of keys
    rendered,       \* the buttons the last script run put on the page
    run,            \* what the last script run did (its log)
    nruns,          \* the number of script runs so far
    pc,             \* "app", or the position of a direct function call
    args,           \* the arguments of a direct function call
    result          \* its result

vars == <<session_state, rendered, run, nruns, pc, args, result>>

\* The value a script run reads for key k (after its setdefault).
Field(k) == setdefault(session_state)[k]

\* ------------------------------------------------------------------------
\* What the user and the collaborators can supply
\* ------------------------------------------------------------------------
\* The number of script runs explored.
MaxRuns == 3

\* Replies of the text-generation backend.
TextOk == <<" ","o","k"," ">>
ReplyError == Reply(TRUE, None, None)
ReplyText == Reply(FALSE, Some(TextOk), Some(<<>>))
ReplyEmpty == Reply(FALSE, None, Some(<<>>))
ReplyObject == Reply(FALSE, Some(<<>>), Some(<<Item(FALSE, "message", <<>>)>>))
Replies == {ReplyError, ReplyText, ReplyEmpty, ReplyObject}

\* What a call of generate_text can come to, over the backend's replies.
Generated == {generate_text(r) : r \in Replies}

\* The link field: empty, or some link.
Url == <<"u">>
Urls == {<<>>, Url}

\* The uploader: no file, or a file with one of these suffixes.
Uploads ==
    {None, Some(<<".","M","O","V">>), Some(<<".","m","p","3">>)}

\* What the transcriber returns for the sources at hand: a transcript with a
\* segment for the digest, one without any keyword, and one whose only
\* keywords are in a segment too short for the digest.
Transcripts ==
    {SegmentData(<<TxtKey, TxtShort>>), SegmentData(<<TxtPlain>>),
     SegmentData(<<TxtShort>>)}

\* ------------------------------------------------------------------------
\* One run of the script
\* ------------------------------------------------------------------------
\* Streamlit runs the script from top to bottom for every user action, with
\* at most one button reported as clicked.  A run is threaded through the
\* blocks of the script as a context record:
\*   state       st.session_state
\*   live        the run has neither stopped (st.stop) nor raised
\*   button      the clicked button ("none" for a rerun without one)
\*   rendered    the buttons put on the page so far
\*   ended       "end", "stop" (st.stop) or "exception" (uncaught)
\*   errors      the number of st.error reports
\*   source      the source Analyze used: "none", "link", "video", "audio"
\*   failed      the Analyze stage that raised, "" if none
\*   executed    the enrichment trigger whose body ran, "" if none
\*   downloads, transcribes, selects, grabs
\*               calls of download_audio, model.transcribe,
\*               extract_key_frames and ffmpeg
\*   gateway     the prompts handed to generate_text, in order
\* A block maps a context to the set of contexts it can end in, one for each
\* thing its collaborators (download, transcriber, ffmpeg, backend) can do.
\* The widgets' values w = [youtube_url, uploaded_file, max_frames] are the
\* user's.
StartOfRun(button) ==
    [state |-> setdefault(session_state), live |-> TRUE, button |-> button,
     rendered |-> {"analyze"}, ended |-> "end", errors |-> 0,
     source |-> "", failed |-> "", executed |-> "",
     downloads |-> 0, transcribes |-> 0, selects |-> 0, grabs |-> 0,
     gateway |-> <<>>]

\* The except handler of the pipeline: st.error, st.exception, st.stop.
analyze_except(c, stage) ==
    [c EXCEPT !.live = FALSE, !.ended = "stop", !.errors = @ + 1,
              !.failed = stage]

\* Mutant of analyze_refine: an empty digest is not sent to the gateway and
\* refined_transcript is left as it was.
analyze_refine_skip_empty(c, important_text) ==
    IF important_text = <<>>
    THEN {c}
    ELSE LET c1 == [c EXCEPT !.gateway = Append(@, "refined_transcript_prompt")]
         IN  { IF g.raised
               THEN analyze_except(c1, "refine")
               ELSE [c1 EXCEPT !.state["refined_transcript"] = Some(g.value)]
               : g \in Generated }

\* -------- REFINEMENT --------
analyze_refine(c, important_text) ==
    LET c1 == [c EXCEPT !.gateway = Append(@, "refined_transcript_prompt")] IN
    { IF g.raised
      THEN analyze_except(c1, "refine")
      ELSE [c1 EXCEPT !.state["refined_transcript"] = Some(g.value)]
      : g \in Generated }

\* Mutant of analyze_frames: without a video, frames is left as it was (the
\* else branch is missing).
analyze_frames_no_else(c, w, segment_data, is_video) ==
    IF is_video
    THEN { LET kf == extract_key_frames(segment_data, grab, w.max_frames)
               c1 == [c EXCEPT !.selects = @ + 1, !.grabs = @ + Len(kf.grabs)]
           IN  IF kf.raised
               THEN analyze_except(c1, "frames")
               ELSE [c1 EXCEPT !.state["frames"] = Some(kf.frames)]
           : grab \in [1..Len(segment_data) -> GrabOutcomes] }
    ELSE {c}

\* -------- FRAMES (ONLY IF VIDEO EXISTS) --------
analyze_frames(c, w, segment_data, is_video) ==
    IF is_video
    THEN { LET kf == extract_key_frames(segment_data, grab, w.max_frames)
               c1 == [c EXCEPT !.selects = @ + 1, !.grabs = @ + Len(kf.grabs)]
           IN  IF kf.raised
               THEN analyze_except(c1, "frames")
               ELSE [c1 EXCEPT !.state["frames"] = Some(kf.frames)]
           : grab \in [1..Len(segment_data) -> GrabOutcomes] }
    ELSE { [c EXCEPT !.state["frames"] = Some(<<>>)] }

\* -------- TRANSCRIPTION, IMPORTANT TEXT and what follows --------
analyze_transcribed(c, w, segment_data, is_video) ==
    LET important_text ==
            extract_important_segments(segment_data, DefaultMaxChars)
        c1 == [c EXCEPT !.state["segments"] = Some(segment_data),
                        !.state["raw_transcript"] = Some(important_text)]
    IN  UNION { IF c2.live THEN analyze_refine(c2, important_text) ELSE {c2}
                : c2 \in analyze_frames(c1, w, segment_data, is_video) }

\* Mutant of analyze_transcribe: segments is emptied before the transcriber
\* is called.
analyze_transcribe_clearing(c, w, is_video) ==
    LET c1 == [c EXCEPT !.transcribes = @ + 1,
                        !.state["segments"] = Some(<<>>)] IN
    {analyze_except(c1, "transcribe")}
    \cup UNION { analyze_transcribed(c1, w, segment_data, is_video)
                 : segment_data \in Transcripts }

analyze_transcribe(c, w, is_video) ==
    LET c1 == [c EXCEPT !.transcribes = @ + 1] IN
    {analyze_except(c1, "transcribe")}
    \cup UNION { analyze_transcribed(c1, w, segment_data, is_video)
                 : segment_data \in Transcripts }

\* -------- SOURCE --------
analyze_source(c, w) ==
    IF w.uploaded_file # None
    THEN LET is_video == is_video_suffix(w.uploaded_file[1])
             c1 == [c EXCEPT !.source = IF is_video THEN "video" ELSE "audio"]
         IN  {analyze_except(c1, "source")}
             \cup analyze_transcribe(c1, w, is_video)
    ELSE LET c1 == [c EXCEPT !.source = "link", !.downloads = @ + 1] IN
         {analyze_except(c1, "source")}
         \cup analyze_transcribe(c1, w, FALSE)

\* Mutant of analyze_block: the validation reports its error but does not
\* stop the script (no st.stop(), the pipeline in an else branch).
analyze_block_no_stop(c, w) ==
    IF c.button # "analyze"
    THEN {c}
    ELSE IF w.youtube_url = <<>> /\ w.uploaded_file = None
         THEN { [c EXCEPT !.errors = @ + 1, !.source = "none"] }
         ELSE analyze_source(c, w)

\* MAIN PIPELINE: if st.button("Analyze Video")
analyze_block(c, w) ==
    IF c.button # "analyze"
    THEN {c}
    ELSE IF w.youtube_url = <<>> /\ w.uploaded_file = None
         THEN { [c EXCEPT !.live = FALSE, !.ended = "stop", !.errors = @ + 1,
                          !.source = "none"] }
         ELSE analyze_source(c, w)

\* IMAGE EXPLANATIONS: one generate_text call per stored frame, on every run
\* that gets here.  The explanation is written to the page only.
RECURSIVE explain_loop(_, _)
explain_loop(c, idx) ==
    IF idx > Len(c.state["frames"][1])
    THEN {c}
    ELSE UNION { IF g.raised
                 THEN { [c EXCEPT !.gateway = Append(@, "explain_image"),
                                  !.live = FALSE, !.ended = "exception"] }
                 ELSE explain_loop(
                          [c EXCEPT !.gateway = Append(@, "explain_image")],
                          idx + 1)
                 : g \in Generated }

explanations_block(c) ==
    IF c.live /\ Truthy(c.state["frames"])
    THEN explain_loop(c, 1)
    ELSE {c}

\* Mutant of trigger: every button stores its text under "takeaways" as well.
trigger_shared_slot(c, key) ==
    IF ~c.live
    THEN {c}
    ELSE LET c1 == [c EXCEPT !.rendered = @ \cup {key}] IN
         IF c.button # key
         THEN {c1}
         ELSE LET c2 == [c1 EXCEPT !.gateway = Append(@, key),
                                   !.executed = key]
              IN  { IF g.raised
                    THEN [c2 EXCEPT !.live = FALSE, !.ended = "exception"]
                    ELSE [c2 EXCEPT !.state[key] = Some(g.value),
                                    !.state["takeaways"] = Some(g.value)]
                    : g \in Generated }

\* One enrichment button and its body:
\*   if st.button(...): st.session_state.<key> = generate_text(<prompt>(refined))
trigger(c, key) ==
    IF ~c.live
    THEN {c}
    ELSE LET c1 == [c EXCEPT !.rendered = @ \cup {key}] IN
         IF c.button # key
         THEN {c1}
         ELSE LET c2 == [c1 EXCEPT !.gateway = Append(@, key),
                                   !.executed = key]
              IN  { IF g.raised
                    THEN [c2 EXCEPT !.live = FALSE, !.ended = "exception"]
                    ELSE [c2 EXCEPT !.state[key] = Some(g.value)]
                    : g \in Generated }

\* The buttons of keys[i..], in order.
RECURSIVE triggers(_, _, _)
triggers(c, keys, i) ==
    IF i > Len(keys)
    THEN {c}
    ELSE UNION { triggers(c1, keys, i + 1) : c1 \in trigger(c, keys[i]) }

\* Mutant of insights_block: the buttons are shown whatever
\* refined_transcript holds.
insights_block_unguarded(c) ==
    IF c.live
    THEN triggers(c, <<"takeaways", "mistakes", "application">>, 1)
    ELSE {c}

\* INSIGHTS: if st.session_state.refined_transcript: three buttons
insights_block(c) ==
    IF c.live /\ Truthy(c.state["refined_transcript"])
    THEN triggers(c, <<"takeaways", "mistakes", "application">>, 1)
    ELSE {c}

\* SOCIAL CONTENT: if st.session_state.refined_transcript: three buttons
social_block(c) ==
    IF c.live /\ Truthy(c.state["refined_transcript"])
    THEN triggers(c, <<"twitter_content", "linkedin_content",
                       "reel_content">>, 1)
    ELSE {c}

\* Mutant of reset_block: Start Over deletes the six enrichment slots only and
\* keeps the pipeline's fields.
reset_block_slots_only(c) ==
    IF ~c.live
    THEN {c}
    ELSE LET c1 == [c EXCEPT !.rendered = @ \cup {"reset"}] IN
         IF c.button = "reset"
         THEN { [c1 EXCEPT !.state = [k \in PipelineSlots |-> c.state[k]]] }
         ELSE {c1}

\* RESET: if st.button("Start Over"): st.session_state.clear()
reset_block(c) ==
    IF ~c.live
    THEN {c}
    ELSE LET c1 == [c EXCEPT !.rendered = @ \cup {"reset"}] IN
         IF c.button = "reset"
         THEN { [c1 EXCEPT !.state = EmptyState] }
         ELSE {c1}

\* The whole script, top to bottom.
script(c, w) ==
    UNION { reset_block(c4) :
        c4 \in UNION { social_block(c3) :
            c3 \in UNION { insights_block(c2) :
                c2 \in UNION { explanations_block(c1) :
                    c1 \in analyze_block(c, w) } } } }

\* The log kept of a run.
LogOf(c) ==
    [button |-> c.button, ended |-> c.ended, errors |-> c.errors,
     source |-> c.source, failed |-> c.failed, executed |-> c.executed,
     downloads |-> c.downloads, transcribes |-> c.transcribes,
     selects |-> c.selects, grabs |-> c.grabs, gateway |-> c.gateway]

\* ------------------------------------------------------------------------
\* The user's actions
\* ------------------------------------------------------------------------
Widgets(youtube_url, uploaded_file, max_frames) ==
    [youtube_url |-> youtube_url, uploaded_file |-> uploaded_file,
     max_frames |-> max_frames]

\* A run in which Analyze is not clicked reads the widgets nowhere.
AnyWidgets == Widgets(<<>>, None, SliderDefault)

\* A script run with the given button clicked.
RunScript(button, w) ==
    /\ pc = "app"
    /\ nruns < MaxRuns
    /\ \E c \in script(StartOfRun(button), w) :
           /\ session_state' = c.state
           /\ rendered' = c.rendered
           /\ run' = LogOf(c)
    /\ nruns' = nruns + 1
    /\ UNCHANGED <<pc, args, result>>

\* A rerun without a button: a widget changed, or the page was reloaded.
Rerun == RunScript("none", AnyWidgets)

\* A click on an enrichment button that is on the page.
ClickTrigger(key) ==
    /\ key \in rendered
    /\ RunScript(key, AnyWidgets)

ClickTakeaways == ClickTrigger("takeaways")
ClickMistakes == ClickTrigger("mistakes")
ClickApplication == ClickTrigger("application")
ClickTwitter == ClickTrigger("twitter_content")
ClickLinkedin == ClickTrigger("linkedin_content")
ClickReel == ClickTrigger("reel_content")

\* A click on Start Over.
ClickReset ==
    /\ "reset" \in rendered
    /\ RunScript("reset", AnyWidgets)

\* A click on Analyze Video, with the widgets as the user has set them.
ClickAnalyze ==
    /\ "analyze" \in rendered
    /\ \E youtube_url \in Urls, uploaded_file \in Uploads,
          max_frames \in SliderMin..SliderMax :
           RunScript("analyze",
                     Widgets(youtube_url, uploaded_file, max_frames))

\* The session after the first run of the script (the page load): every key
\* set to None by setdefault, the Analyze and Start Over buttons on the page.
InitApp ==
    /\ session_state = [k \in Keys |-> None]
    /\ rendered = {"analyze", "reset"}
    /\ run = LogOf(StartOfRun("none"))
    /\ nruns = 0

Init ==
    /\ InitApp
    /\ pc = "app"
    /\ args = <<>>
    /\ result = <<>>

Next ==
    \/ Rerun
    \/ ClickAnalyze
    \/ ClickTakeaways
    \/ ClickMistakes
    \/ ClickApplication
    \/ ClickTwitter
    \/ ClickLinkedin
    \/ ClickReel
    \/ ClickReset

Spec == Init /\ [][Next]_vars

\* ------------------------------------------------------------------------
\* Direct calls of the two pure functions
\* ------------------------------------------------------------------------
\* extract_important_segments(segments, max_chars), for every transcript of at
\* most MaxSegs segments and every max_chars up to MaxChars.
InitFilter ==
    /\ InitApp
    /\ pc = "filter"
    /\ args \in {[segments |-> SegmentData(texts), max_chars |-> m] :
                    texts \in SeqsUpTo(SegmentTexts, MaxSegs),
                    m \in 0..MaxChars}
    /\ result = <<>>

CallFilter ==
    /\ pc = "filter"
    /\ result' =
           [text |-> extract_important_segments(args.segments, args.max_chars),
            evaluated |-> important_scan(args.segments, args.max_chars).evaluated]
    /\ pc' = "filter_done"
    /\ UNCHANGED <<session_state, rendered, run, nruns, args>>

SpecFilter == InitFilter /\ [][CallFilter]_vars

\* extract_key_frames(segments, video_path, max_frames), for every transcript
\* of at most MaxSegs segments, every max_frames up to MaxFrames and
\* everything ffmpeg can do.
InitFrames ==
    /\ InitApp
    /\ pc = "frames"
    /\ args \in UNION {
           {[segments |-> SegmentData(texts), max_frames |-> m, grab |-> g] :
               m \in 0..MaxFrames, g \in [1..Len(texts) -> GrabOutcomes]}
           : texts \in SeqsUpTo(FrameTexts, MaxSegs) }
    /\ result = <<>>

CallFrames ==
    /\ pc = "frames"
    /\ result' = extract_key_frames(args.segments, args.grab, args.max_frames)
    /\ pc' = "frames_done"
    /\ UNCHANGED <<session_state, rendered, run, nruns, args>>

SpecFrames == InitFrames /\ [][CallFrames]_vars

\* generate_text(prompt), for every shape of the backend's response: the call
\* raising or not, the primary field absent, empty, blank or a text, the
\* fallback list absent or of at most MaxItems items, each a dict or an
\* object, text-typed or not.
TextHi == <<" ","h","i">>
PrimaryFields == {None, Some(<<>>), Some(<<" ">>), Some(TextOk)}
Items ==
    {Item(d, t, x) : d \in BOOLEAN, t \in {"output_text", "message"},
                     x \in {<<>>, TextHi}}
FallbackLists == {None} \cup {Some(items) : items \in SeqsUpTo(Items, MaxItems)}

InitGateway ==
    /\ InitApp
    /\ pc = "gateway"
    /\ args \in {[reply |-> Reply(e, p, o)] :
                    e \in BOOLEAN, p \in PrimaryFields, o \in FallbackLists}
    /\ result = <<>>

CallGateway ==
    /\ pc = "gateway"
    /\ result' = generate_text(args.reply)
    /\ pc' = "gateway_done"
    /\ UNCHANGED <<session_state, rendered, run, nruns, args>>

SpecGateway == InitGateway /\ [][CallGateway]_vars

\* ------------------------------------------------------------------------
\* Properties
\* ------------------------------------------------------------------------
\* A script run happens in this step.
RunStep == nruns' = nruns + 1

\* The value key k holds after this step.
FieldAfter(k) == setdefault(session_state')[k]

\* The pipeline's four fields.
PipelineKeys == {"segments", "raw_transcript", "frames", "refined_transcript"}

\* The members of a sequence.
Range(q) == {q[i] : i \in 1..Len(q)}

\* C1: an enrichment trigger runs, and writes its slot, only in a state whose
\* refined_transcript is populated; where it is None or empty, a click on a
\* trigger calls the gateway for no trigger and leaves all six slots alone.
TriggersNeedRefined ==
    [][RunStep =>
        /\ run'.executed # "" =>
               /\ Truthy(Field("refined_transcript"))
               /\ run'.executed = run'.button
        /\ (~Truthy(Field("refined_transcript")) /\ run'.button \in TriggerKeys) =>
               /\ run'.executed = ""
               /\ Range(run'.gateway) \cap TriggerKeys = {}
               /\ \A k \in TriggerKeys : FieldAfter(k) = Field(k)
      ]_vars

\* C1 witness: a click on a trigger button that was on the page (after Start
\* Over) found refined_transcript empty, and the run passed it by.
TriggerClickedWithoutRefined ==
    /\ run.button \in TriggerKeys
    /\ run.executed = ""
    /\ run.ended = "end"
    /\ ~Truthy(Field("refined_transcript"))

\* C2 (as claimed): an Analyze run in which any stage raises leaves segments,
\* raw_transcript, frames and refined_transcript as they were before the run.
FailedAnalyzeCommitsNothing ==
    [][(RunStep /\ run'.button = "analyze" /\ run'.failed # "") =>
          \A k \in PipelineKeys : FieldAfter(k) = Field(k)
      ]_vars

\* C3: when the acquisition of the source or the transcription raises, every
\* session field is as it was before the run, and one failure is reported.
AcquisitionFailureLeavesSession ==
    [][(RunStep /\ run'.button = "analyze"
                /\ run'.failed \in {"source", "transcribe"}) =>
          /\ \A k \in Keys : FieldAfter(k) = Field(k)
          /\ run'.errors = 1
          /\ run'.ended = "stop"
          /\ run'.gateway = <<>>
      ]_vars

\* C3 witness: a download that raised, in a session that held a refined
\* transcript, frames and an enrichment.
DownloadFailedOnPopulatedSession ==
    /\ run.button = "analyze"
    /\ run.source = "link"
    /\ run.failed = "source"
    /\ Truthy(Field("refined_transcript"))
    /\ Truthy(Field("frames"))
    /\ \E k \in TriggerKeys : Truthy(Field(k))

\* C9 (as claimed): after every Analyze run on a link or an audio upload, the
\* frame selector and ffmpeg were not called and frames is empty.
NoFramesWithoutVideo ==
    (run.button = "analyze" /\ run.source \in {"link", "audio"}) =>
        /\ run.selects = 0
        /\ run.grabs = 0
        /\ ~Truthy(Field("frames"))

\* C9 (amended): on a link or an upload without a video suffix the frame
\* selector and ffmpeg are never called; frames is the empty list once acquisition and
\* transcription have succeeded (also when the refine call then raises).
NoFramesWithoutVideoOnceTranscribed ==
    (run.button = "analyze" /\ run.source \in {"link", "audio"}) =>
        /\ run.selects = 0
        /\ run.grabs = 0
        /\ run.failed \notin {"source", "transcribe"} =>
               Field("frames") = Some(<<>>)

\* C9 witness: an audio upload analysed to the end in a session that holds an
\* enrichment of an earlier analysis.
AudioAnalyzedAfterEarlierRun ==
    /\ run.button = "analyze"
    /\ run.source = "audio"
    /\ run.failed = ""
    /\ Field("frames") = Some(<<>>)
    /\ \E k \in TriggerKeys : Truthy(Field(k))

\* C10: a run in which an enrichment trigger's body runs changes no session
\* field but the trigger's own slot.
TriggerWritesOwnSlotOnly ==
    [][(RunStep /\ run'.executed # "") =>
          \A k \in Keys \ {run'.executed} : FieldAfter(k) = Field(k)
      ]_vars

\* C10 witness: a trigger has written its slot while another slot and frames
\* were populated.
TriggerRanBesideOtherSlot ==
    /\ run.executed # ""
    /\ run.ended = "end"
    /\ Truthy(Field(run.executed))
    /\ \E k \in TriggerKeys \ {run.executed} : Truthy(Field(k))
    /\ Truthy(Field("frames"))

\* The trimmed text of segment i, whether it has the six words, and whether it
\* qualifies for the digest (six words and a keyword).
Trimmed(segments, i) == strip(segments[i].text)
Long(segments, i) == Len(split(Trimmed(segments, i))) >= MinWords
Qualifies(segments, i) ==
    Long(segments, i) /\ AnyKeyword(lower(Trimmed(segments, i)))

\* The trimmed texts of the qualifying segments among the first n, in order.
RECURSIVE QualifyingTexts(_, _)
QualifyingTexts(segments, n) ==
    IF n = 0
    THEN <<>>
    ELSE IF Qualifies(segments, n)
         THEN Append(QualifyingTexts(segments, n - 1), Trimmed(segments, n))
         ELSE QualifyingTexts(segments, n - 1)

\* " ".join(texts)
RECURSIVE JoinSpace(_)
JoinSpace(texts) ==
    IF texts = <<>>
    THEN <<>>
    ELSE IF Len(texts) = 1
         THEN texts[1]
         ELSE texts[1] \o <<" ">> \o JoinSpace(Tail(texts))

\* The least member of a non-empty set of numbers.
Least(S) == CHOOSE n \in S : \A m \in S : n <= m

\* C4 (as claimed, for a max_chars of 1 or more): the digest is at most
\* max_chars long.
DigestWithinMaxChars ==
    (pc = "filter_done" /\ args.max_chars >= 1) =>
        Len(result.text) <= args.max_chars

\* C5: the digest is the single-space join of the trimmed texts of a prefix
\* of the qualifying segments, in their order.
DigestIsPrefixJoin ==
    pc = "filter_done" =>
        LET q == QualifyingTexts(args.segments, Len(args.segments)) IN
        \E n \in 0..Len(q) : result.text = JoinSpace(SubSeq(q, 1, n))

\* C5 witness: the digest is cut after two of three qualifying segments.
DigestCutAfterTwoOfThree ==
    /\ pc = "filter_done"
    /\ LET q == QualifyingTexts(args.segments, Len(args.segments)) IN
       /\ Len(q) = 3
       /\ result.text = JoinSpace(SubSeq(q, 1, 2))

\* C6 (as claimed, for a max_chars of 1 or more): the digest holds the first N
\* qualifying segments, N the smallest count whose space-joined length is
\* >= max_chars (all of them if no count reaches it), and the loop looks at no
\* segment after the N-th.
DigestStopsAtJoinedLength ==
    (pc = "filter_done" /\ args.max_chars >= 1) =>
        LET q == QualifyingTexts(args.segments, Len(args.segments))
            reach == {n \in 1..Len(q) :
                         Len(JoinSpace(SubSeq(q, 1, n))) >= args.max_chars}
            N == IF reach = {} THEN Len(q) ELSE Least(reach)
            last == IF reach = {}
                    THEN Len(args.segments)
                    ELSE Least({i \in 1..Len(args.segments) :
                                   Len(QualifyingTexts(args.segments, i)) = N})
        IN  /\ result.text = JoinSpace(SubSeq(q, 1, N))
            /\ result.evaluated = last

\* The length of the buffer after segment i: each appended text and the blank
\* that follows it.
BufferLen(segments, i) ==
    LET q == QualifyingTexts(segments, i) IN
    IF q = <<>> THEN 0 ELSE Len(JoinSpace(q)) + 1

\* C6 (amended): the loop stops at the first segment of six words or more at
\* which the buffer, the blank after the last text included, is max_chars long
\* or longer; the digest is the join of the qualifying segments up to there,
\* and no later segment is looked at.  For max_chars >= 1 that is the first N
\* qualifying segments, N the smallest count whose space-joined length is
\* >= max_chars - 1.
DigestStopsAtBufferLength ==
    pc = "filter_done" =>
        LET segs == args.segments
            stops == {i \in 1..Len(segs) :
                         Long(segs, i) /\ BufferLen(segs, i) >= args.max_chars}
            stop == IF stops = {} THEN Len(segs) ELSE Least(stops)
            q == QualifyingTexts(segs, Len(segs))
            reach == {n \in 1..Len(q) :
                         Len(JoinSpace(SubSeq(q, 1, n))) >= args.max_chars - 1}
            N == IF reach = {} THEN Len(q) ELSE Least(reach)
        IN  /\ result.evaluated = stop
            /\ result.text = JoinSpace(QualifyingTexts(segs, stop))
            /\ args.max_chars >= 1 => result.text = JoinSpace(SubSeq(q, 1, N))

\* C6 witness: the loop has stopped with a digest one character short of
\* max_chars, before a further qualifying segment.
DigestStoppedOneShort ==
    /\ pc = "filter_done"
    /\ result.text # <<>>
    /\ Len(result.text) = args.max_chars - 1
    /\ result.evaluated < Len(args.segments)
    /\ \E i \in (result.evaluated + 1)..Len(args.segments) :
           Qualifies(args.segments, i)

FramesOnlyForWrittenImages ==
    pc = "frames_done" =>
        \A i \in 1..Len(result.frames) :
            LET seg == result.frames[i].path + 1 IN
            /\ AnyKeyword(lower(args.segments[seg].text))
            /\ args.grab[seg] = "ok"

\* C11: a run in which Start Over is clicked and the script gets to the button
\* leaves st.session_state without any key, so that all ten fields read None,
\* as in the initial state, whatever the session held before.
ResetClearsEveryField ==
    (run.button = "reset" /\ run.ended = "end") =>
        /\ session_state = EmptyState
        /\ \A k \in Keys : Field(k) = None
        /\ setdefault(session_state) = [k \in Keys |-> None]

\* C11 witness: Start Over has cleared a session that held frames (the run
\* explained them before it got to the button).
ResetClearedSessionWithFrames ==
    /\ run.button = "reset"
    /\ run.ended = "end"
    /\ run.gateway # <<>>
    /\ session_state = EmptyState

\* C12: an Analyze run with an empty link field and no uploaded file reports
\* one error and stops at once: download, transcriber, frame selector, ffmpeg
\* and gateway are not called, and every session field is as before the run.
NoSourceIsRejected ==
    [][(RunStep /\ run'.button = "analyze" /\ run'.source = "none") =>
          /\ run'.errors = 1
          /\ run'.ended = "stop"
          /\ run'.downloads = 0
          /\ run'.transcribes = 0
          /\ run'.selects = 0
          /\ run'.grabs = 0
          /\ run'.gateway = <<>>
          /\ \A k \in Keys : FieldAfter(k) = Field(k)
      ]_vars

\* C12 witness: Analyze was clicked without a source in a session that holds
\* frames and a refined transcript.
NoSourceOnPopulatedSession ==
    /\ run.button = "analyze"
    /\ run.source = "none"
    /\ run.ended = "stop"
    /\ Truthy(Field("frames"))
    /\ Truthy(Field("refined_transcript"))

\* The texts generate_text can return.
Returned == {g.value : g \in {h \in Generated : ~h.raised}}

\* C13: in an Analyze run that gets past the frame stage with a transcript
\* none of whose segments qualifies, raw_transcript is the empty string, the
\* first gateway call of the run is the refine call, and when that call
\* returns, its text, empty or not, is in refined_transcript and no error is
\* reported.
EmptyDigestIsRefined ==
    (/\ run.button = "analyze"
     /\ run.source \in {"link", "audio", "video"}
     /\ run.failed \in {"", "refine"}
     /\ QualifyingTexts(Field("segments")[1], Len(Field("segments")[1])) = <<>>)
    => /\ Field("raw_transcript") = Some(<<>>)
       /\ run.gateway # <<>>
       /\ run.gateway[1] = "refined_transcript_prompt"
       /\ run.failed = "" =>
              /\ Field("refined_transcript") \in {Some(v) : v \in Returned}
              /\ run.errors = 0

\* C13 witness: a transcript without a qualifying segment was analysed, and
\* the empty text the gateway returned for the empty digest is stored.
EmptyDigestAndEmptyRefined ==
    /\ run.button = "analyze"
    /\ run.failed = ""
    /\ Field("segments") # None
    /\ Field("segments")[1] # <<>>
    /\ Field("raw_transcript") = Some(<<>>)
    /\ Field("refined_transcript") = Some(<<>>)
    /\ run.gateway[1] = "refined_transcript_prompt"

\* C14 (as claimed): when the gateway call of an enrichment trigger raises, the
\* run leaves the trigger's own slot empty and every other field as it was.
TriggerFailureEmptiesSlot ==
    [][(RunStep /\ run'.executed # "" /\ run'.ended = "exception") =>
          /\ ~Truthy(FieldAfter(run'.executed))
          /\ \A k \in Keys \ {run'.executed} : FieldAfter(k) = Field(k)
      ]_vars

\* The indices of the text-typed entries of a fallback list.
TextTyped(items) == {i \in 1..Len(items) : items[i].type = "output_text"}

\* C15 (as claimed): for every response of the backend, generate_text does
\* not raise; it returns the (trimmed) text of the primary field when that
\* holds one, else the (trimmed) text of the first text-typed entry of the
\* fallback list, else, the list being absent, empty or without such an
\* entry, the empty string.
GenerateTextNeverRaises ==
    (pc = "gateway_done" /\ ~args.reply.error) =>
        LET r == args.reply IN
        /\ ~result.raised
        /\ result.value =
               IF Truthy(r.output_text)
               THEN strip(r.output_text[1])
               ELSE IF r.output # None /\ TextTyped(r.output[1]) # {}
                    THEN strip(r.output[1][Least(TextTyped(r.output[1]))].text)
                    ELSE <<>>

\* The trimmed texts of the segments whose index is in I, in order.
RECURSIVE TextsAt(_, _, _)
TextsAt(segments, I, n) ==
    IF n = 0
    THEN <<>>
    ELSE IF n \in I
         THEN Append(TextsAt(segments, I, n - 1), Trimmed(segments, n))
         ELSE TextsAt(segments, I, n - 1)

\* C16: the digest is made of trimmed texts of segments of six words or more
\* only: a segment of fewer words adds nothing to it, keyword or not, and a
\* transcript of such segments alone gives the empty digest.
ShortSegmentsContributeNothing ==
    pc = "filter_done" =>
        LET segs == args.segments
            long == {i \in 1..Len(segs) : Long(segs, i)}
        IN  \E I \in SUBSET long :
                result.text = JoinSpace(TextsAt(segs, I, Len(segs)))

\* C16 witness: a segment with a keyword in fewer than six words was looked at
\* before a qualifying one, and the digest is the qualifying one's text.
ShortKeywordSegmentSkipped ==
    /\ pc = "filter_done"
    /\ Len(args.segments) >= 2
    /\ ~Long(args.segments, 1)
    /\ AnyKeyword(lower(Trimmed(args.segments, 1)))
    /\ Qualifies(args.segments, 2)
    /\ result.text = Trimmed(args.segments, 2)

\* C17 (as claimed): a run in which Analyze succeeds calls the gateway once,
\* for the refine prompt, whatever the source and however many frames were
\* extracted.
SuccessfulAnalyzeCallsGatewayOnce ==
    (run.button = "analyze" /\ run.source \in {"link", "audio", "video"}
                           /\ run.failed = "") =>
        run.gateway = <<"refined_transcript_prompt">>

\* C18 (as claimed): whatever ffmpeg does for the segments of an uploaded
\* video, the frame stage does not raise: the frame selector goes through its
\* candidates to the end or to max_frames, and the run gets to the refine
\* call.
FrameFailureNeverAborts ==
    (run.button = "analyze" /\ run.source = "video"
                           /\ run.failed \notin {"source", "transcribe"}) =>
        /\ run.failed # "frames"
        /\ run.gateway # <<>>
        /\ run.gateway[1] = "refined_transcript_prompt"

\* C19 (as claimed): no populated enrichment slot outlives the refined
\* transcript it was generated from: a successful Analyze run that replaces
\* refined_transcript by another value leaves no slot populated (a run has one
\* button, so what a slot holds after an Analyze run it held before).
NoSlotOutlivesRefined ==
    [][(/\ RunStep
        /\ run'.button = "analyze"
        /\ run'.source \in {"link", "audio", "video"}
        /\ run'.failed = ""
        /\ FieldAfter("refined_transcript") # Field("refined_transcript")) =>
          \A k \in TriggerKeys : ~Truthy(FieldAfter(k))
      ]_vars

\* C20 (as claimed): Start Over can be carried out in every session state and
\* whatever the backend does: a run in which the Start Over button is clicked
\* gets to the button and clears the session.
ResetAlwaysExecutes ==
    [][(RunStep /\ run'.button = "reset") =>
          /\ run'.ended = "end"
          /\ session_state' = EmptyState
      ]_vars

====
